---------------------------- MODULE Spec2Model ----------------------------
(***************************************************************************)
(* Model of the authentication / delegated-credential subsystem of the     *)
(* triage bot: the request gateway of src/mcp-server/azure_auth.py         *)
(* (authenticate_request, get_authenticator, validate_token), its          *)
(* on-behalf-of credential functions, and the token cache of               *)
(* src/server/auth/azure_auth.py.                                          *)
(*                                                                         *)
(* Text is modelled as a sequence of atoms (one atom per character or per  *)
(* indivisible word), so that str.split and substring tests are computed   *)
(* as Python computes them.                                                *)
(***************************************************************************)
EXTENDS Integers, Sequences, FiniteSets, TLC

(***************************************************************************)
(* Bounds of the model.                                                    *)
(***************************************************************************)
NumWorkers == 2

(***************************************************************************)
(* State.                                                                  *)
(***************************************************************************)
\* configuration, as get_config_value resolves it
VARIABLES
    multi_tenant_enabled,   \* is_multi_tenant_enabled()
    auto_tenant_discovery,  \* is_auto_tenant_discovery_enabled()
    required_scopes_raw     \* get_config_value("REQUIRED_SCOPES", "")

cfgVars == <<multi_tenant_enabled, auto_tenant_discovery, required_scopes_raw>>

\* the gateway process of src/mcp-server/azure_auth.py
VARIABLES
    authenticator,  \* the global _authenticator: 0 is None, else an instance
    auth_adapters,  \* per live authenticator, its dict tenant id -> adapter
    req             \* per worker thread, the request it is serving

gwVars == <<authenticator, auth_adapters, req>>

\* the token cache of AzureAuthHelper
VARIABLES
    cached_tokens,  \* self._cached_tokens: key -> accessToken (0 is None)
    token_expiry,   \* self._token_expiry: key -> parsed expiresOn
    now,            \* datetime.utcnow(), in minutes
    mints,          \* successful runs of "az account get-access-token" so far
    last            \* the get_access_token call that has just returned

cacheVars == <<cached_tokens, token_expiry, now, mints, last>>

\* the delegated-credential functions
VARIABLES
    obo_credentials,  \* OnBehalfOfCredential objects constructed so far
    obo_requests,     \* credential.get_token calls made so far
    obo_last          \* the last call and what it returned

oboVars == <<obo_credentials, obo_requests, obo_last>>

\* the scope check applied to drawn texts
VARIABLES
    sc_scp,     \* the scp claim of the token checked (NoneSeq: no scp claim)
    sc_result   \* "none" before the check, then "pass" or "fail"

scopeVars == <<sc_scp, sc_result>>

\* the CLI caller of src/cli/triage_bot.py
VARIABLES
    azure_token,  \* the global azure_token: "none" is None, else a token
    cli           \* the invocation of call_mcp_function in progress

cliVars == <<azure_token, cli>>

\* threads of the alternate server process inside get_access_token
VARIABLES
    callers       \* per thread, where it is in get_access_token

raceVars == <<callers>>

\* the secret store client of src/mcp-server/key_vault_utils.py
VARIABLES
    secret_cache,  \* _secret_cache: secret name -> value
    vault,         \* what the Key Vault holds: secret name -> value
    env,           \* os.environ: key -> value
    kv_client,     \* what get_key_vault_client gives: "off", "none" or "client"
    kv_last        \* the call that has just returned

kvVars == <<secret_cache, vault, env, kv_client, kv_last>>

vars == <<cfgVars, gwVars, cacheVars, oboVars, scopeVars, cliVars, raceVars, kvVars>>

\* what the steps of each component leave alone
GwFrame == UNCHANGED <<cfgVars, cacheVars, oboVars, scopeVars, cliVars, raceVars, kvVars>>
CacheFrame == UNCHANGED <<cfgVars, gwVars, oboVars, scopeVars, cliVars, raceVars, kvVars>>
OboFrame == UNCHANGED <<cfgVars, gwVars, cacheVars, scopeVars, cliVars, raceVars, kvVars>>
ScopeFrame == UNCHANGED <<cfgVars, gwVars, cacheVars, oboVars, cliVars, raceVars, kvVars>>
CliFrame == UNCHANGED <<cfgVars, gwVars, cacheVars, oboVars, scopeVars, raceVars, kvVars>>
RaceFrame == UNCHANGED <<cfgVars, gwVars, oboVars, scopeVars, cliVars, kvVars>>
KvFrame == UNCHANGED <<cfgVars, gwVars, cacheVars, oboVars, scopeVars, cliVars, raceVars>>

(***************************************************************************)
(* Python values.                                                          *)
(***************************************************************************)
\* None where a str is expected (token_tenant_id, a missing claim)
NoneStr == "<None>"
\* None where a sequence-modelled str is expected
NoneSeq == <<"<None>">>

\* Python truthiness of an Optional[str] modelled as a sequence
Truthy(s) == s # NoneSeq /\ s # <<>>

\* index of the first occurrence of atom sep in s, 0 when there is none
RECURSIVE FirstIndex(_, _, _)
FirstIndex(s, sep, i) ==
    IF i > Len(s) THEN 0
    ELSE IF s[i] = sep THEN i
    ELSE FirstIndex(s, sep, i + 1)

\* str.split(sep): always at least one piece, empty pieces kept
RECURSIVE Split(_, _)
Split(s, sep) ==
    LET i == FirstIndex(s, sep, 1)
    IN  IF i = 0 THEN <<s>>
        ELSE <<SubSeq(s, 1, i - 1)>> \o Split(SubSeq(s, i + 1, Len(s)), sep)

\* the set of elements of a list
Range(s) == {s[i] : i \in 1..Len(s)}

\* the empty dict
EmptyDict == [x \in {} |-> 0]

\* dict item assignment d[k] = v
DictSet(d, k, v) == [x \in DOMAIN d \cup {k} |-> IF x = k THEN v ELSE d[x]]

\* "x in s" for a substring x that is one atom
Contains(s, atom) == \E i \in 1..Len(s) : s[i] = atom

\* a split piece read back as a str: pieces of the modelled texts are one atom or empty
PieceStr(p) == IF p = <<>> THEN "" ELSE IF Len(p) = 1 THEN p[1] ELSE "<text>"

(***************************************************************************)
(* Configuration (get_config_value and the getters built on it).           *)
(***************************************************************************)
home_tenant_id == "H"

\* get_required_scopes: scopes.split(",") if scopes else []
get_required_scopes(raw) == IF raw = <<>> THEN <<>> ELSE Split(raw, ",")

(***************************************************************************)
(* Bearer tokens.  A token is named by one atom; Jwt gives what            *)
(* jwt.decode(token, verify_signature=False) yields, and signer the tenant *)
(* whose keys its signature, audience and expiry verify against.           *)
(***************************************************************************)
StsIssuer(t) == <<"https:", "/", "/", "sts.windows.net", "/", t, "/">>
LoginIssuer(t) == <<"https:", "/", "/", "login.microsoftonline.com", "/", t, "/", "v2.0">>

TokenNames == {"jH", "jHv2", "jT1", "jT1h", "jBad", "jOdd", "jNoIss", "jDeep", "jOther"}

Jwt(name) ==
    CASE name = "jH"     -> [decodable |-> TRUE, hasIss |-> TRUE, iss |-> StsIssuer("H"),
                             signer |-> "H", scp |-> <<"a", " ", "c">>]
      [] name = "jHv2"   -> [decodable |-> TRUE, hasIss |-> TRUE, iss |-> LoginIssuer("H"),
                             signer |-> "H", scp |-> NoneSeq]
      [] name = "jDeep"  -> [decodable |-> TRUE, hasIss |-> TRUE,
                             iss |-> <<"https:", "/", "/", "login.microsoftonline.com",
                                       "/", "T1", "/", "oauth2", "/", "v2.0">>,
                             signer |-> "T1", scp |-> NoneSeq]
      [] name = "jOther" -> [decodable |-> TRUE, hasIss |-> TRUE,
                             iss |-> <<"https:", "/", "/", "accounts.example.com", "/", "T1", "/">>,
                             signer |-> "none", scp |-> NoneSeq]
      [] name = "jT1"    -> [decodable |-> TRUE, hasIss |-> TRUE, iss |-> LoginIssuer("T1"),
                             signer |-> "T1", scp |-> <<"c">>]
      [] name = "jT1h"   -> [decodable |-> TRUE, hasIss |-> TRUE, iss |-> StsIssuer("T1"),
                             signer |-> "H", scp |-> <<"x">>]
      [] name = "jOdd"   -> [decodable |-> TRUE, hasIss |-> TRUE, iss |-> <<"sts.windows.net">>,
                             signer |-> "none", scp |-> NoneSeq]
      [] name = "jNoIss" -> [decodable |-> TRUE, hasIss |-> FALSE, iss |-> <<>>,
                             signer |-> "H", scp |-> NoneSeq]
      [] OTHER           -> [decodable |-> FALSE, hasIss |-> FALSE, iss |-> <<>>,
                             signer |-> "none", scp |-> NoneSeq]

\* the tokens sent to the gateway
GatewayTokens == {"jH", "jT1", "jT1h", "jBad"}

\* the token text a request carries decodes only when it is exactly one token
Decode(token) ==
    IF Len(token) = 1 /\ token[1] \in TokenNames THEN Jwt(token[1]) ELSE Jwt("jBad")

\* Authorization headers a client can send
Headers ==
    {[present |-> FALSE, value |-> <<>>],
     [present |-> TRUE, value |-> <<"Basic ", "jH">>],
     [present |-> TRUE, value |-> <<"Bearer ">>]}
    \cup {[present |-> TRUE, value |-> <<"Bearer ", j>>] : j \in GatewayTokens}

\* a Bearer header for every token, and one whose credentials hold the
\* text "Bearer " a second time
SeqHeaders ==
    {[present |-> TRUE, value |-> <<"Bearer ", j>>] : j \in TokenNames}
    \cup {[present |-> TRUE, value |-> <<"Bearer ", "jH", "Bearer ", "x">>]}

\* mutant: the scheme of the header is not checked
get_token_from_header_AnyScheme(h) ==
    IF ~h.present \/ h.value = <<>> THEN NoneSeq ELSE Tail(h.value)

\* get_token_from_header: None unless the header starts with "Bearer "
get_token_from_header(h) ==
    IF ~h.present \/ h.value = <<>> \/ h.value[1] # "Bearer "
    THEN NoneSeq
    ELSE Split(h.value, "Bearer ")[2]

\* mutant: the last piece of the issuer is taken
TokenTenantId_LastPiece(token) ==
    LET d == Decode(token)
        iss == IF d.hasIss THEN d.iss ELSE <<>>
        pieces == Split(iss, "/")
    IN  IF ~d.decodable THEN NoneStr
        ELSE IF Contains(iss, "sts.windows.net") \/ Contains(iss, "login.microsoftonline.com")
             THEN PieceStr(pieces[Len(pieces)])
             ELSE NoneStr

\* token_tenant_id of validate_token: the second-to-last "/" piece of iss for
\* the two known hosts, None for any other issuer and on any exception
TokenTenantId(token) ==
    LET d == Decode(token)
        iss == IF d.hasIss THEN d.iss ELSE <<>>
        pieces == Split(iss, "/")
    IN  IF ~d.decodable THEN NoneStr
        ELSE IF Contains(iss, "sts.windows.net") \/ Contains(iss, "login.microsoftonline.com")
             THEN IF Len(pieces) < 2 THEN NoneStr
                  ELSE PieceStr(pieces[Len(pieces) - 1])
             ELSE NoneStr

\* Python truthiness of token_tenant_id
TenantTruthy(t) == t # NoneStr /\ t # ""


(***************************************************************************)
(* The adapter of the identity library (an external collaborator): the     *)
(* adapter of tenant t accepts exactly the tokens whose signature,         *)
(* audience and expiry verify against t's trust material.                  *)
(***************************************************************************)
Validates(adapterTenant, token) ==
    LET d == Decode(token) IN d.decodable /\ d.signer = adapterTenant

\* what adapter.validate_token can do: return claims, raise AuthError, or
\* raise another exception (a timeout fetching the tenant's keys)
AdapterOutcomes(adapterTenant, token) ==
    IF Validates(adapterTenant, token) THEN {"claims", "exception"}
    ELSE {"AuthError", "exception"}

(***************************************************************************)
(* Scope check of validate_token.                                          *)
(***************************************************************************)
\* claims.get("scp", "").split(" ")
token_scopes(scp) == Split(IF scp = NoneSeq THEN <<>> ELSE scp, " ")

\* not (required_scopes and not any(scope in token_scopes for scope in required_scopes))
ScopeCheckPasses(required, scp) ==
    \/ required = <<>>
    \/ \E i \in 1..Len(required) : required[i] \in Range(token_scopes(scp))

\* user_info built from the validated claims
NoInfo == [id |-> NoneStr, scopes |-> <<>>, tenant_id |-> NoneStr,
           issuer |-> NoneSeq, token |-> NoneSeq]

UserInfo(token) ==
    LET d == Decode(token)
    IN  [id |-> token[1],
         scopes |-> IF d.scp = NoneSeq THEN <<>> ELSE Split(d.scp, " "),
         tenant_id |-> d.signer,
         issuer |-> IF d.hasIss THEN d.iss ELSE NoneSeq,
         token |-> NoneSeq]

(***************************************************************************)
(* The gateway process.  Objects are named by who made them: an            *)
(* authenticator by the worker thread whose call constructed it, an        *)
(* adapter by its authenticator, its tenant and the constructing thread.   *)
(* An authenticator that neither _authenticator nor a running request      *)
(* refers to is garbage and leaves the state, with its dict.               *)
(***************************************************************************)
Workers == 1..NumWorkers

NoAdapter == [owner |-> 0, tenant |-> NoneStr, by |-> 0]

\* no HTTP response yet
NoResponse ==
    [status_code |-> 0, kind |-> "none", text |-> <<>>, user_info |-> NoInfo]

Idle ==
    [pc |-> "idle", header |-> [present |-> FALSE, value |-> <<>>],
     token |-> NoneSeq, auth |-> 0, token_tenant_id |-> NoneStr,
     adapter |-> NoAdapter, status |-> "none", error |-> "none",
     user_info |-> NoInfo, stages |-> <<>>, response |-> NoResponse]

\* the error_message authenticate_request returns, or the text of the
\* exception that leaves it; "str(e)" is the text of the exception caught and
\* "required_scopes" the printed list of required scopes
error_message(r) ==
    CASE r.error = "MissingToken" -> <<"No authentication token provided">>
      [] r.error = "AuthError" -> <<"Token validation error: ", "str(e)">>
      [] r.error = "exception" -> <<"Error validating token: ", "str(e)">>
      [] r.error = "ScopeInsufficient" ->
            <<"Token doesn't have any of the required scopes: ", "required_scopes">>
      [] OTHER -> <<"str(e)">>

\* mutant: the route does not look at is_authenticated
authenticate_NoCheck(r) ==
    IF r.pc # "done" THEN r
    ELSE [r EXCEPT !.response =
            IF r.status = "raised"
            THEN [status_code |-> 500, kind |-> "error",
                  text |-> <<"Authentication error: ">> \o error_message(r),
                  user_info |-> NoInfo]
            ELSE [status_code |-> 200, kind |-> "data",
                  text |-> <<"Token validated successfully">>,
                  user_info |-> r.user_info]]

\* the route POST /authenticate of function_app.py, applied to a request
\* whose call of authenticate_request has ended: 500 when an exception left
\* it, 401 when it returned is_authenticated = False, else 200 with user_info
authenticate(r) ==
    IF r.pc # "done" THEN r
    ELSE [r EXCEPT !.response =
            CASE r.status = "raised" ->
                    [status_code |-> 500, kind |-> "error",
                     text |-> <<"Authentication error: ">> \o error_message(r),
                     user_info |-> NoInfo]
              [] r.status = "ok" ->
                    [status_code |-> 200, kind |-> "data",
                     text |-> <<"Token validated successfully">>,
                     user_info |-> r.user_info]
              [] OTHER ->
                    [status_code |-> 401, kind |-> "error",
                     text |-> <<"Authentication failed: ">> \o error_message(r),
                     user_info |-> NoInfo]]

\* the dict self.auth_adapters of worker w's authenticator
Registry(w) == auth_adapters[req[w].auth]

\* the authenticators still referred to
Live(global, requests) == ({global} \cup {requests[w].auth : w \in Workers}) \ {0}

\* the authenticators' dicts without those of the garbage
Collect(dicts, global, requests) ==
    [i \in DOMAIN dicts \cap Live(global, requests) |-> dicts[i]]

(***************************************************************************)
(* Steps of a request.  What a thread does between two accesses of the     *)
(* shared state (_authenticator, an authenticator's dict) is one step.     *)
(***************************************************************************)
\* authenticate_request up to get_authenticator's test "_authenticator is
\* None": without a token the request ends here; with an authenticator in
\* place get_authenticator returns it
Receive(w, h) ==
    /\ req[w].pc = "idle"
    /\ LET token == get_token_from_header(h)
       IN  IF ~Truthy(token)
           THEN req' = [req EXCEPT ![w] = authenticate(
                   [Idle EXCEPT !.pc = "done", !.header = h, !.status = "fail",
                                !.error = "MissingToken",
                                !.stages = <<"Received", "Rejected">>])]
           ELSE req' = [req EXCEPT ![w] =
                   [Idle EXCEPT !.pc = IF authenticator = 0 THEN "construct" ELSE "parse",
                                !.auth = authenticator,
                                !.header = h, !.token = token,
                                !.stages = <<"Received">>]]
    /\ UNCHANGED <<authenticator, auth_adapters>>
    /\ GwFrame

\* MicrosoftIdentityAuthenticator.__init__: the dict of a new authenticator
NewRegistry(w) ==
    [t \in {home_tenant_id} |-> [owner |-> w, tenant |-> home_tenant_id, by |-> w]]

\* the constructed authenticator is assigned to _authenticator; a constructor
\* that raises leaves _authenticator as it is and the exception leaves
\* authenticate_request
ConstructAuthenticator(w) ==
    /\ req[w].pc = "construct"
    /\ \E ok \in BOOLEAN :
        IF ok
        THEN /\ authenticator' = w
             /\ req' = [req EXCEPT ![w].pc = "return"]
             /\ auth_adapters' = Collect(DictSet(auth_adapters, w, NewRegistry(w)), w, req')
        ELSE /\ req' = [req EXCEPT ![w] = authenticate(
                            [@ EXCEPT !.pc = "done", !.status = "raised",
                                      !.error = "ConfigurationError"])]
             /\ UNCHANGED <<authenticator, auth_adapters>>
    /\ GwFrame

ReturnAuthenticator(w) ==
    /\ req[w].pc = "return"
    /\ req' = [req EXCEPT ![w].pc = "parse", ![w].auth = authenticator]
    /\ UNCHANGED <<authenticator, auth_adapters>>
    /\ GwFrame

(***************************************************************************)
(* validate_token.                                                         *)
(***************************************************************************)
\* mutants of the guard: the auto-discovery flag, or the multi-tenant flag,
\* is not consulted
NeedsCreate_NoAuto(multi, auto, tenant, registry) ==
    /\ multi
    /\ TenantTruthy(tenant)
    /\ tenant # home_tenant_id
    /\ tenant \notin DOMAIN registry

NeedsCreate_NoMulti(multi, auto, tenant, registry) ==
    /\ TenantTruthy(tenant)
    /\ tenant # home_tenant_id
    /\ auto
    /\ tenant \notin DOMAIN registry

\* the guard of the auto-creation of an adapter
NeedsCreate(multi, auto, tenant, registry) ==
    /\ multi
    /\ TenantTruthy(tenant)
    /\ tenant # home_tenant_id
    /\ auto
    /\ tenant \notin DOMAIN registry

\* the unverified parse of the token and the check "not in self.auth_adapters"
ParseToken(w) ==
    /\ req[w].pc = "parse"
    /\ LET tenant == TokenTenantId(req[w].token)
       IN  req' = [req EXCEPT
                ![w].token_tenant_id = tenant,
                ![w].stages = Append(@, "IssuerParsed"),
                ![w].pc = IF NeedsCreate(multi_tenant_enabled, auto_tenant_discovery,
                                         tenant, Registry(w))
                          THEN "create" ELSE "select"]
    /\ UNCHANGED <<authenticator, auth_adapters>>
    /\ GwFrame

\* mutant: the new adapter is stored under the home tenant's key
InsertAdapter_HomeKey(registry, tenant, a) == DictSet(registry, home_tenant_id, a)

\* self.auth_adapters[token_tenant_id] = adapter
InsertAdapter(registry, tenant, a) == DictSet(registry, tenant, a)

\* the adapter of the new tenant is constructed and stored; a constructor
\* that raises is caught and token_tenant_id becomes None
CreateAdapter(w) ==
    /\ req[w].pc = "create"
    /\ \E ok \in BOOLEAN :
        IF ok
        THEN LET a == [owner |-> req[w].auth, tenant |-> req[w].token_tenant_id,
                       by |-> w]
             IN  /\ auth_adapters' = [auth_adapters EXCEPT ![req[w].auth] =
                        InsertAdapter(@, req[w].token_tenant_id, a)]
                 /\ req' = [req EXCEPT ![w].pc = "select"]
        ELSE /\ req' = [req EXCEPT ![w].pc = "select", ![w].token_tenant_id = NoneStr]
             /\ UNCHANGED auth_adapters
    /\ UNCHANGED authenticator
    /\ GwFrame

\* mutant: another tenant's adapter is preferred when the dict has one
ChooseAdapter_PreferOther(registry, tenant) ==
    IF DOMAIN registry # {home_tenant_id}
    THEN registry[CHOOSE t \in DOMAIN registry : t # home_tenant_id]
    ELSE registry[home_tenant_id]

\* the tenant's adapter when the dict has one, else the home tenant's
ChooseAdapter(registry, tenant) ==
    IF tenant \in DOMAIN registry THEN registry[tenant] ELSE registry[home_tenant_id]

\* the request after "adapter = ..." chose adapter a
AfterSelect(r, a) ==
    [r EXCEPT !.adapter = a, !.stages = Append(@, "AdapterResolved"), !.pc = "validate"]

\* mutant: a failed validation does not end the request
AfterValidate_NoShortCircuit(r, o) ==
    [r EXCEPT !.pc = "scope", !.stages = Append(@, "SignatureValidated")]

\* the request after adapter.validate_token ended with outcome o
AfterValidate(r, o) ==
    IF o = "claims"
    THEN [r EXCEPT !.pc = "scope", !.stages = Append(@, "SignatureValidated")]
    ELSE [r EXCEPT !.pc = "done", !.status = "fail", !.error = o,
                   !.stages = Append(@, "Rejected")]

\* authenticate_request's tail: user_info["token"] = token
WithToken(user_info, token) == [user_info EXCEPT !.token = token]

\* the request after the scope check, the user_info and the return through
\* authenticate_request
AfterScopes(r, required) ==
    IF r.pc # "scope" THEN r
    ELSE IF ScopeCheckPasses(required, Decode(r.token).scp)
    THEN [r EXCEPT !.pc = "done", !.status = "ok",
                   !.user_info = WithToken(UserInfo(r.token), r.token),
                   !.stages = @ \o <<"ScopeChecked", "Authorized">>]
    ELSE [r EXCEPT !.pc = "done", !.status = "fail", !.error = "ScopeInsufficient",
                   !.stages = Append(@, "Rejected")]

\* the adapter is read from the dict, validates the token, and the scopes
\* are checked
ValidateWithAdapter(w) ==
    /\ req[w].pc = "select"
    /\ LET r == AfterSelect(req[w], ChooseAdapter(Registry(w), req[w].token_tenant_id))
       IN  \E o \in AdapterOutcomes(r.adapter.tenant, r.token) :
              req' = [req EXCEPT ![w] = authenticate(
                        AfterScopes(AfterValidate(r, o),
                                    get_required_scopes(required_scopes_raw)))]
    /\ UNCHANGED <<authenticator, auth_adapters>>
    /\ GwFrame

\* the response has been sent: the request's objects are released and the
\* worker takes the next request
Respond(w) ==
    /\ req[w].pc = "done"
    /\ req' = [req EXCEPT ![w] = Idle]
    /\ auth_adapters' = Collect(auth_adapters, authenticator, req')
    /\ UNCHANGED authenticator
    /\ GwFrame

(***************************************************************************)
(* The token cache of AzureAuthHelper (src/server/auth/azure_auth.py).     *)
(* Time is counted in minutes.                                             *)
(***************************************************************************)
\* timedelta(minutes=5) of _is_token_valid
BufferMinutes == 5
\* the clock stops here
MaxTime == 7
\* at most this many successful runs of the token command
MaxMints == 3

CacheTenants == {NoneSeq, <<"a">>}
CacheResources == {<<"r">>}

\* cache_key = f"{tenant_id}_{resource}"
CacheKey(tenant_id, resource) ==
    (IF tenant_id = NoneSeq THEN <<"None">> ELSE tenant_id) \o <<"_">> \o resource


\* lifetimes the identity provider states, in minutes from the mint
Lifetimes == {3, 10}

\* the expiresOn of a response: absent, a naive timestamp, one with "Z" or an
\* offset, or text that is no ISO timestamp
ExpiresOnValues(t) ==
    {[kind |-> "absent", at |-> 0], [kind |-> "bad", at |-> 0]}
    \cup {[kind |-> "naive", at |-> t + d] : d \in Lifetimes}
    \cup {[kind |-> "aware", at |-> t + d] : d \in Lifetimes}

\* what subprocess.run and json.loads can give: a failure (time-out, non-zero
\* exit), or a JSON object with or without accessToken and expiresOn
MintResponses(t) ==
    {[rc |-> f, hasToken |-> FALSE, expiresOn |-> [kind |-> "absent", at |-> 0]] :
        f \in {"timeout", "nonzero"}}
    \cup {[rc |-> "ok", hasToken |-> h, expiresOn |-> e] :
            h \in BOOLEAN, e \in ExpiresOnValues(t)}

\* mutant: the expiry is compared with the clock alone, without the buffer
IsTokenValid_NoBuffer(tokens, expiry, key, t) ==
    IF key \notin DOMAIN tokens THEN "invalid"
    ELSE IF key \notin DOMAIN expiry THEN "valid"
    ELSE IF expiry[key].kind = "aware" THEN "raise"
    ELSE IF expiry[key].at > t THEN "valid"
    ELSE "invalid"

\* _is_token_valid: comparing an aware expiry with the naive utcnow() raises
IsTokenValid(tokens, expiry, key, t) ==
    IF key \notin DOMAIN tokens THEN "invalid"
    ELSE IF key \notin DOMAIN expiry THEN "valid"
    ELSE IF expiry[key].kind = "aware" THEN "raise"
    ELSE IF expiry[key].at > t + BufferMinutes THEN "valid"
    ELSE "invalid"

\* args: the arguments of the call; expiresOn: the kind of expiresOn in the
\* response of the token command, "none" when it gave no response
NoCall == [key |-> <<>>, source |-> "none", value |-> 0, ran |-> FALSE,
           before |-> "none", args |-> <<>>, expiresOn |-> "none"]

\* get_access_token(tenant_id, resource)
GetAccessToken(tenant_id, resource) ==
    /\ CacheFrame
    /\ LET key == CacheKey(tenant_id, resource)
           v == IsTokenValid(cached_tokens, token_expiry, key, now)
           call == [key |-> key, source |-> "none", value |-> 0, ran |-> FALSE,
                    before |-> v, args |-> <<tenant_id, resource>>,
                    expiresOn |-> "none"]
       IN  CASE v = "raise" ->
                 /\ last' = [call EXCEPT !.source = "error"]
                 /\ UNCHANGED <<cached_tokens, token_expiry, now, mints>>
             [] v = "valid" ->
                 /\ last' = [call EXCEPT !.source = "cache", !.value = cached_tokens[key]]
                 /\ UNCHANGED <<cached_tokens, token_expiry, now, mints>>
             [] OTHER ->
                 \E r \in MintResponses(now) :
                   IF r.rc # "ok"
                   THEN /\ last' = [call EXCEPT !.source = "error", !.ran = TRUE]
                        /\ UNCHANGED <<cached_tokens, token_expiry, now, mints>>
                   ELSE /\ mints < MaxMints
                        /\ mints' = mints + 1
                        /\ cached_tokens' = DictSet(cached_tokens, key,
                                                    IF r.hasToken THEN mints + 1 ELSE 0)
                        /\ token_expiry' =
                               IF r.expiresOn.kind \in {"naive", "aware"}
                               THEN DictSet(token_expiry, key, r.expiresOn)
                               ELSE token_expiry
                        /\ last' = IF r.expiresOn.kind = "bad"
                                   THEN [call EXCEPT !.source = "error", !.ran = TRUE,
                                           !.expiresOn = "bad"]
                                   ELSE [call EXCEPT !.source = "mint", !.ran = TRUE,
                                           !.value = IF r.hasToken THEN mints + 1 ELSE 0,
                                           !.expiresOn = r.expiresOn.kind]
                        /\ UNCHANGED now

\* clear_token_cache
ClearTokenCache ==
    /\ DOMAIN cached_tokens # {}
    /\ cached_tokens' = EmptyDict
    /\ token_expiry' = EmptyDict
    /\ last' = NoCall
    /\ UNCHANGED <<now, mints>>
    /\ CacheFrame

\* a minute passes
Tick ==
    /\ now < MaxTime
    /\ now' = now + 1
    /\ last' = NoCall
    /\ UNCHANGED <<cached_tokens, token_expiry, mints>>
    /\ CacheFrame

(***************************************************************************)
(* get_access_token called by several threads of the server process at     *)
(* once.  A thread first tests the cache, then runs the token command and  *)
(* stores what it got; other threads run between the two.                  *)
(***************************************************************************)
\* seen: the number of tokens minted when the thread tested the cache
NoCaller == [pc |-> "idle", key |-> <<>>, seen |-> 0, got |-> 0, source |-> "none"]

\* cache_key and "if self._is_token_valid(cache_key)"
TestCache(t, tenant_id, resource) ==
    /\ callers[t].pc = "idle"
    /\ LET key == CacheKey(tenant_id, resource)
           v == IsTokenValid(cached_tokens, token_expiry, key, now)
           c == [NoCaller EXCEPT !.key = key, !.seen = mints]
       IN  callers' = [callers EXCEPT ![t] =
              CASE v = "valid" -> [c EXCEPT !.pc = "done", !.source = "cache",
                                            !.got = cached_tokens[key]]
                [] v = "raise" -> [c EXCEPT !.pc = "done", !.source = "error"]
                [] OTHER -> [c EXCEPT !.pc = "run"]]
    /\ UNCHANGED cacheVars
    /\ RaceFrame

\* subprocess.run returns; the token and its expiry are stored and the token
\* is returned
MintAndStore(t) ==
    /\ callers[t].pc = "run"
    /\ LET key == callers[t].key
       IN  \E r \in MintResponses(now) :
             IF r.rc # "ok"
             THEN /\ callers' = [callers EXCEPT ![t].pc = "done", ![t].source = "error"]
                  /\ UNCHANGED cacheVars
             ELSE /\ mints < MaxMints
                  /\ mints' = mints + 1
                  /\ cached_tokens' = DictSet(cached_tokens, key,
                                              IF r.hasToken THEN mints + 1 ELSE 0)
                  /\ token_expiry' =
                         IF r.expiresOn.kind \in {"naive", "aware"}
                         THEN DictSet(token_expiry, key, r.expiresOn)
                         ELSE token_expiry
                  /\ callers' = [callers EXCEPT
                         ![t].pc = "done",
                         ![t].source = IF r.expiresOn.kind = "bad" THEN "error" ELSE "mint",
                         ![t].got = IF r.hasToken /\ r.expiresOn.kind # "bad"
                                    THEN mints + 1 ELSE 0]
                  /\ UNCHANGED <<now, last>>
    /\ RaceFrame

\* the call has returned
Leave(t) ==
    /\ callers[t].pc = "done"
    /\ callers' = [callers EXCEPT ![t] = NoCaller]
    /\ UNCHANGED cacheVars
    /\ RaceFrame

(***************************************************************************)
(* Delegated (on-behalf-of) credentials: get_credential,                   *)
(* get_token_for_resource and get_graph_token of                           *)
(* src/mcp-server/azure_auth.py.                                           *)
(***************************************************************************)
\* calls are counted up to here
MaxOboCalls == 2

OboResources == {"https://graph.microsoft.com/.default", "https://management.azure.com/"}
\* tenant_id arguments: None, "", the home tenant, another tenant
OboTenants == {NoneStr, "", home_tenant_id, "T1"}
\* user_token arguments: None, "", a token
OboUserTokens == {NoneSeq, <<>>, <<"jH">>}

\* get_managed_tenant_ids
get_managed_tenant_ids == {}


NoOboCall ==
    [fn |-> "none", resource |-> "", tenant_id |-> NoneStr, user_token |-> NoneSeq,
     returned |-> "none", authority |-> NoneStr, constructed |-> FALSE,
     requested |-> FALSE]

\* mutant: without a user token a credential of the service itself is built
get_credential_ServiceFallback(tenant_id, user_token, constructorOk) ==
    IF constructorOk
    THEN [outcome |-> "ok", constructed |-> TRUE,
          tenant |-> IF TenantTruthy(tenant_id) THEN tenant_id ELSE home_tenant_id]
    ELSE [outcome |-> "raise", constructed |-> FALSE, tenant |-> NoneStr]

\* get_credential: "ok" with the credential's tenant, or "raise"
get_credential(tenant_id, user_token, constructorOk) ==
    IF Truthy(user_token) /\ constructorOk
    THEN [outcome |-> "ok", constructed |-> TRUE,
          tenant |-> IF TenantTruthy(tenant_id) THEN tenant_id ELSE home_tenant_id]
    ELSE [outcome |-> "raise", constructed |-> FALSE, tenant |-> NoneStr]

\* the tenant check of get_token_for_resource refuses the call
TenantRefused(multi, tenant_id) ==
    /\ multi
    /\ TenantTruthy(tenant_id)
    /\ tenant_id # home_tenant_id
    /\ tenant_id \notin get_managed_tenant_ids

\* the record of a call that went through get_credential and get_token
Exchange(fn, resource, tenant_id, user_token, constructorOk, tokenOk) ==
    LET c == get_credential(tenant_id, user_token, constructorOk)
    IN  [fn |-> fn, resource |-> resource, tenant_id |-> tenant_id,
         user_token |-> user_token,
         returned |-> IF c.outcome = "ok" /\ tokenOk THEN "token" ELSE "None",
         authority |-> c.tenant,
         constructed |-> c.constructed,
         requested |-> c.outcome = "ok"]

Count(n, b) == IF b /\ n < MaxOboCalls THEN n + 1 ELSE n

\* get_token_for_resource(resource, tenant_id, user_token)
GetTokenForResource(resource, tenant_id, user_token) ==
    /\ OboFrame
    /\ \E constructorOk \in BOOLEAN, tokenOk \in BOOLEAN :
        LET call == IF TenantRefused(multi_tenant_enabled, tenant_id)
                    THEN [NoOboCall EXCEPT !.fn = "get_token_for_resource",
                            !.resource = resource, !.tenant_id = tenant_id,
                            !.user_token = user_token, !.returned = "None"]
                    ELSE Exchange("get_token_for_resource", resource, tenant_id,
                                  user_token, constructorOk, tokenOk)
        IN  /\ obo_last' = call
            /\ obo_credentials' = Count(obo_credentials, call.constructed)
            /\ obo_requests' = Count(obo_requests, call.requested)

\* get_graph_token(tenant_id, user_token)
GetGraphToken(tenant_id, user_token) ==
    /\ OboFrame
    /\ \E constructorOk \in BOOLEAN, tokenOk \in BOOLEAN :
        LET call == Exchange("get_graph_token", "https://graph.microsoft.com/.default",
                             tenant_id, user_token, constructorOk, tokenOk)
        IN  /\ obo_last' = call
            /\ obo_credentials' = Count(obo_credentials, call.constructed)
            /\ obo_requests' = Count(obo_requests, call.requested)

(***************************************************************************)
(* The scope check as a function of the configured text and the token's    *)
(* scp claim.                                                              *)
(***************************************************************************)
\* longest text drawn
MaxScopeLen == 3

Texts(alphabet, n) == UNION {[1..k -> alphabet] : k \in 0..n}


ApplyScopeCheck ==
    /\ sc_result = "none"
    /\ sc_result' = IF ScopeCheckPasses(get_required_scopes(required_scopes_raw), sc_scp)
                    THEN "pass" ELSE "fail"
    /\ UNCHANGED sc_scp
    /\ ScopeFrame

(***************************************************************************)
(* The CLI caller: call_mcp_function of src/cli/triage_bot.py.  A status   *)
(* of 0 stands for a requests.post that raised (no response).              *)
(***************************************************************************)
Endpoints == {"authenticate", "incidents/list", "incidents/get", "metrics/dashboard"}

\* what one requests.post can give
PostOutcomes == {0, 200, 401, 403, 500}

NoInvocation ==
    [pc |-> "idle", endpoint |-> "", posts |-> <<>>, fetches |-> 0,
     refreshed |-> "no", result |-> "none"]

\* call_mcp_function(endpoint, data) is entered
Call(e) ==
    /\ cli.pc = "idle"
    /\ cli' = [NoInvocation EXCEPT !.endpoint = e,
                  !.pc = IF azure_token = "none" THEN "acquire" ELSE "post"]
    /\ UNCHANGED azure_token
    /\ CliFrame

\* "if not azure_token": get_azure_token, and without a token the
\* invocation ends
Acquire ==
    /\ cli.pc = "acquire"
    /\ \E ok \in BOOLEAN :
        /\ azure_token' = IF ok THEN "token" ELSE "none"
        /\ cli' = IF ok
                  THEN [cli EXCEPT !.pc = "post", !.fetches = @ + 1]
                  ELSE [cli EXCEPT !.pc = "done", !.fetches = @ + 1,
                                   !.result = "Authentication required"]
    /\ CliFrame

\* raise_for_status and response.json() on the response kept
Finish(c, status, jsonOk) ==
    [c EXCEPT !.pc = "done",
              !.result = IF status = 200 /\ jsonOk THEN "json" ELSE "error"]

\* mutant: a 401 on the second POST leads to another refresh
AfterPost_RetryAgain(c, status, jsonOk) ==
    IF status = 0 THEN [c EXCEPT !.pc = "done", !.result = "error"]
    ELSE IF status = 401 THEN [c EXCEPT !.pc = "refresh"]
    ELSE Finish(c, status, jsonOk)

\* the invocation after a POST was answered with status (0: it raised)
AfterPost(c, status, jsonOk) ==
    IF status = 0 THEN [c EXCEPT !.pc = "done", !.result = "error"]
    ELSE IF status = 401 /\ Len(c.posts) = 1 THEN [c EXCEPT !.pc = "refresh"]
    ELSE Finish(c, status, jsonOk)

\* requests.post: the first POST, or the one after the refresh
Post ==
    /\ cli.pc = "post"
    /\ \E status \in PostOutcomes, jsonOk \in BOOLEAN :
        cli' = AfterPost([cli EXCEPT !.posts = Append(@, status)], status, jsonOk)
    /\ UNCHANGED azure_token
    /\ CliFrame

\* after a 401: azure_token = get_azure_token(); POST again with a token,
\* end the invocation without
Refresh ==
    /\ cli.pc = "refresh"
    /\ \E ok \in BOOLEAN :
        /\ azure_token' = IF ok THEN "token" ELSE "none"
        /\ cli' = IF ok
                  THEN [cli EXCEPT !.pc = "post", !.fetches = @ + 1,
                                   !.refreshed = "ok"]
                  ELSE [cli EXCEPT !.pc = "done", !.fetches = @ + 1,
                                   !.refreshed = "failed",
                                   !.result = "Failed to refresh authentication token"]
    /\ CliFrame

\* the invocation has returned; the CLI goes on
Return ==
    /\ cli.pc = "done"
    /\ cli' = NoInvocation
    /\ UNCHANGED azure_token
    /\ CliFrame

(***************************************************************************)
(* Secrets and configuration values: key_vault_utils and get_config_value. *)
(* A str is one atom here; "" is the empty str.                            *)
(***************************************************************************)
CONFIG_KEYS ==
    [k \in {"AZURE_HOME_TENANT_ID", "REQUIRED_SCOPES"} |->
        IF k = "AZURE_HOME_TENANT_ID" THEN "azure-home-tenant-id" ELSE "required-scopes"]

\* the keys asked for; KEY_VAULT_NAME is not in CONFIG_KEYS
EnvKeys == DOMAIN CONFIG_KEYS \cup {"KEY_VAULT_NAME"}

SecretNames == {CONFIG_KEYS[k] : k \in DOMAIN CONFIG_KEYS}

SecretValues == {"", "v1", "v2"}

EnvValues == {"", "e"}

\* what a request to the Key Vault does: it is answered, or it fails
StoreOutcomes == {"ok", "error"}

NoKvCall == [op |-> "none", name |-> "", default |-> "", contacted |-> FALSE,
             result |-> ""]

\* del d[k]
DictDel(d, k) == [x \in DOMAIN d \ {k} |-> d[x]]

\* get_secret reading the Key Vault on every call
SecretLookup_ReadThrough(cache, secret_name, default_value, outcome) ==
    IF kv_client # "client"
    THEN [value |-> IF secret_name \in DOMAIN cache THEN cache[secret_name]
                    ELSE default_value,
          cache |-> cache, contacted |-> FALSE]
    ELSE IF outcome = "ok" /\ secret_name \in DOMAIN vault
    THEN [value |-> vault[secret_name],
          cache |-> DictSet(cache, secret_name, vault[secret_name]),
          contacted |-> TRUE]
    ELSE [value |-> default_value, cache |-> cache, contacted |-> TRUE]

\* get_secret caching the default value when the Key Vault gives nothing
SecretLookup_CacheDefault(cache, secret_name, default_value, outcome) ==
    IF secret_name \in DOMAIN cache
    THEN [value |-> cache[secret_name], cache |-> cache, contacted |-> FALSE]
    ELSE IF kv_client # "client"
    THEN [value |-> default_value, cache |-> cache, contacted |-> FALSE]
    ELSE IF outcome = "ok" /\ secret_name \in DOMAIN vault
    THEN [value |-> vault[secret_name],
          cache |-> DictSet(cache, secret_name, vault[secret_name]),
          contacted |-> TRUE]
    ELSE [value |-> default_value,
          cache |-> DictSet(cache, secret_name, default_value),
          contacted |-> TRUE]

\* get_secret: the value returned, the cache afterwards and whether
\* client.get_secret was called
SecretLookup(cache, secret_name, default_value, outcome) ==
    IF secret_name \in DOMAIN cache
    THEN [value |-> cache[secret_name], cache |-> cache, contacted |-> FALSE]
    ELSE IF kv_client = "off"
    THEN [value |-> default_value, cache |-> cache, contacted |-> FALSE]
    ELSE IF kv_client = "none"
    THEN [value |-> default_value, cache |-> cache, contacted |-> FALSE]
    ELSE IF outcome = "ok" /\ secret_name \in DOMAIN vault
    THEN [value |-> vault[secret_name],
          cache |-> DictSet(cache, secret_name, vault[secret_name]),
          contacted |-> TRUE]
    ELSE [value |-> default_value, cache |-> cache, contacted |-> TRUE]

get_secret(secret_name, default_value) ==
    \E outcome \in StoreOutcomes :
        LET r == SecretLookup(secret_cache, secret_name, default_value, outcome)
        IN  /\ secret_cache' = r.cache
            /\ kv_last' = [op |-> "get_secret", name |-> secret_name,
                           default |-> default_value, contacted |-> r.contacted,
                           result |-> r.value]
            /\ UNCHANGED <<vault, env, kv_client>>
            /\ KvFrame

set_secret(secret_name, secret_value) ==
    /\ \E outcome \in StoreOutcomes :
        LET done == kv_client = "client" /\ outcome = "ok"
        IN  /\ vault' = IF done THEN DictSet(vault, secret_name, secret_value) ELSE vault
            /\ secret_cache' = IF done THEN DictSet(secret_cache, secret_name, secret_value)
                               ELSE secret_cache
            /\ kv_last' = [op |-> "set_secret", name |-> secret_name,
                           default |-> secret_value,
                           contacted |-> kv_client = "client",
                           result |-> IF done THEN "True" ELSE "False"]
    /\ UNCHANGED <<env, kv_client>>
    /\ KvFrame

\* begin_delete_secret raises when the Key Vault has no such secret
delete_secret(secret_name) ==
    /\ \E outcome \in StoreOutcomes :
        LET done == /\ kv_client = "client"
                    /\ outcome = "ok"
                    /\ secret_name \in DOMAIN vault
        IN  /\ vault' = IF done THEN DictDel(vault, secret_name) ELSE vault
            /\ secret_cache' = IF done THEN DictDel(secret_cache, secret_name)
                               ELSE secret_cache
            /\ kv_last' = [op |-> "delete_secret", name |-> secret_name,
                           default |-> "", contacted |-> kv_client = "client",
                           result |-> IF done THEN "True" ELSE "False"]
    /\ UNCHANGED <<env, kv_client>>
    /\ KvFrame

clear_cache ==
    /\ secret_cache' = EmptyDict
    /\ kv_last' = [NoKvCall EXCEPT !.op = "clear_cache"]
    /\ UNCHANGED <<vault, env, kv_client>>
    /\ KvFrame

\* the secret is given another value, or removed, in the Key Vault itself
StoreChanges(secret_name) ==
    /\ \/ \E v \in SecretValues : vault' = DictSet(vault, secret_name, v)
       \/ vault' = DictDel(vault, secret_name)
    /\ vault' # vault
    /\ kv_last' = [NoKvCall EXCEPT !.op = "store", !.name = secret_name]
    /\ UNCHANGED <<secret_cache, env, kv_client>>
    /\ KvFrame

\* get_config_value that ignores the environment
ConfigValue_SkipEnv(key, default, secret_value) ==
    IF secret_value # "" THEN secret_value ELSE default

\* "if secret_value: return secret_value" and os.environ.get(key, default)
ConfigValue(key, default, secret_value) ==
    IF secret_value # "" THEN secret_value
    ELSE IF key \in DOMAIN env THEN env[key]
    ELSE default

get_config_value(key, default) ==
    \E outcome \in StoreOutcomes :
        LET r == IF key \in DOMAIN CONFIG_KEYS
                 THEN SecretLookup(secret_cache, CONFIG_KEYS[key], "", outcome)
                 ELSE [value |-> "", cache |-> secret_cache, contacted |-> FALSE]
        IN  /\ secret_cache' = r.cache
            /\ kv_last' = [op |-> "get_config_value", name |-> key,
                           default |-> default, contacted |-> r.contacted,
                           result |-> ConfigValue(key, default, r.value)]
            /\ UNCHANGED <<vault, env, kv_client>>
            /\ KvFrame

(***************************************************************************)
(* Specifications.                                                         *)
(***************************************************************************)
\* the configurations checked: every setting of the two flags with scopes
\* required, and one without required scopes
CfgInit ==
    /\ multi_tenant_enabled \in BOOLEAN
    /\ auto_tenant_discovery \in BOOLEAN
    /\ required_scopes_raw \in {<<>>, <<"b", ",", "c">>}
    /\ required_scopes_raw = <<>> => ~multi_tenant_enabled /\ ~auto_tenant_discovery

GwInit ==
    /\ authenticator = 0
    /\ auth_adapters = EmptyDict
    /\ req = [w \in Workers |-> Idle]

CacheInit ==
    /\ cached_tokens = EmptyDict
    /\ token_expiry = EmptyDict
    /\ now = 0
    /\ mints = 0
    /\ last = NoCall

OboInit ==
    /\ obo_credentials = 0
    /\ obo_requests = 0
    /\ obo_last = NoOboCall

ScopeIdle ==
    /\ sc_scp = NoneSeq
    /\ sc_result = "none"

CliInit ==
    /\ azure_token = "none"
    /\ cli = NoInvocation

RaceInit == callers = [w \in Workers |-> NoCaller]

KvIdle ==
    /\ secret_cache = EmptyDict
    /\ vault = EmptyDict
    /\ env = EmptyDict
    /\ kv_client = "off"
    /\ kv_last = NoKvCall

\* the parts of the state a specification does not move
Others == CliInit /\ RaceInit /\ KvIdle

CfgFixed ==
    /\ multi_tenant_enabled = FALSE
    /\ auto_tenant_discovery = FALSE
    /\ required_scopes_raw = <<>>

InitFixed == CfgFixed /\ GwInit /\ CacheInit /\ OboInit /\ ScopeIdle /\ Others

\* the gateway: worker threads serving /authenticate requests
Init == CfgInit /\ GwInit /\ CacheInit /\ OboInit /\ ScopeIdle /\ Others

Next ==
    \E w \in Workers :
        \/ \E h \in Headers : Receive(w, h)
        \/ ConstructAuthenticator(w)
        \/ ReturnAuthenticator(w)
        \/ ParseToken(w)
        \/ CreateAdapter(w)
        \/ ValidateWithAdapter(w)
        \/ Respond(w)

Spec == Init /\ [][Next]_vars

\* the token cache of the alternate server process
NextCache ==
    \/ \E t \in CacheTenants, r \in CacheResources : GetAccessToken(t, r)
    \/ ClearTokenCache
    \/ Tick

SpecCache == InitFixed /\ [][NextCache]_vars

\* the delegated-credential functions
NextObo ==
    \/ \E r \in OboResources, t \in OboTenants, u \in OboUserTokens :
            GetTokenForResource(r, t, u)
    \/ \E t \in OboTenants, u \in OboUserTokens : GetGraphToken(t, u)

SpecObo == Init /\ [][NextObo]_vars

\* the scope check on drawn texts
InitScope ==
    /\ multi_tenant_enabled = FALSE
    /\ auto_tenant_discovery = FALSE
    /\ required_scopes_raw \in Texts({"b", "c", ","}, MaxScopeLen)
    /\ GwInit /\ CacheInit /\ OboInit /\ Others
    /\ sc_scp \in Texts({"a", "c", "x", " "}, MaxScopeLen) \cup {NoneSeq}
    /\ sc_result = "none"

NextScope == ApplyScopeCheck

SpecScope == InitScope /\ [][NextScope]_vars

\* requests served one after the other, with every token and every
\* setting of the flags and of the required scopes
InitSeq ==
    /\ multi_tenant_enabled \in BOOLEAN
    /\ auto_tenant_discovery \in BOOLEAN
    /\ required_scopes_raw \in {<<>>, <<"b", ",", "c">>}
    /\ GwInit /\ CacheInit /\ OboInit /\ ScopeIdle /\ Others

NextSeq ==
    \/ \E h \in SeqHeaders : Receive(1, h)
    \/ ConstructAuthenticator(1)
    \/ ReturnAuthenticator(1)
    \/ ParseToken(1)
    \/ CreateAdapter(1)
    \/ ValidateWithAdapter(1)
    \/ Respond(1)

SpecSeq == InitSeq /\ [][NextSeq]_vars

\* the CLI calling the server, one invocation after the other
InitCli ==
    /\ CfgFixed /\ GwInit /\ CacheInit /\ OboInit /\ ScopeIdle /\ RaceInit /\ KvIdle
    /\ azure_token \in {"none", "token"}
    /\ cli = NoInvocation

NextCli ==
    \/ \E e \in Endpoints : Call(e)
    \/ Acquire
    \/ Post
    \/ Refresh
    \/ Return

SpecCli == InitCli /\ [][NextCli]_vars

\* threads of the server process calling get_access_token at once
NextRace ==
    \/ \E t \in Workers, tenant \in CacheTenants, r \in CacheResources :
            TestCache(t, tenant, r)
    \/ \E t \in Workers : MintAndStore(t)
    \/ \E t \in Workers : Leave(t)
    \/ ClearTokenCache

SpecRace == InitFixed /\ [][NextRace]_vars

\* (tenant_id, resource) arguments whose texts contain "None" and "_"
Pairs ==
    {<<NoneSeq, <<"r">>>>, <<<<"None">>, <<"r">>>>, <<<<"a">>, <<"r">>>>,
     <<<<"a">>, <<"b", "_", "r">>>>, <<<<"a", "_", "b">>, <<"r">>>>}

\* get_access_token called for these pairs, one call after the other
NextPairs ==
    \/ \E p \in Pairs : GetAccessToken(p[1], p[2])
    \/ ClearTokenCache

SpecPairs == InitFixed /\ [][NextPairs]_vars

\* the process environment: every setting of the keys asked for
Environments ==
    UNION {[ks -> EnvValues] : ks \in SUBSET EnvKeys}

\* a started process: nothing cached, any environment, and the Key Vault
\* not configured, without a client, or reachable
InitKv ==
    /\ CfgFixed /\ GwInit /\ CacheInit /\ OboInit /\ ScopeIdle /\ CliInit /\ RaceInit
    /\ secret_cache = EmptyDict
    /\ vault = EmptyDict
    /\ env \in Environments
    /\ kv_client \in {"off", "none", "client"}
    /\ kv_last = NoKvCall

NextKv ==
    \/ \E n \in SecretNames, d \in {"", "d"} : get_secret(n, d)
    \/ \E n \in SecretNames, v \in SecretValues : set_secret(n, v)
    \/ \E n \in SecretNames : delete_secret(n)
    \/ clear_cache
    \/ \E n \in SecretNames : StoreChanges(n)
    \/ \E k \in EnvKeys, d \in {"", "false"} : get_config_value(k, d)

SpecKv == InitKv /\ [][NextKv]_vars


(***************************************************************************)
(* Properties of the gateway (specification Spec).                         *)
(***************************************************************************)
\* adapters held by the requests in flight
HeldAdapters == {req[w].adapter : w \in Workers} \ {NoAdapter}

\* C1: under concurrent first-time validations for a newly seen tenant,
\* exactly one adapter exists for that tenant in an authenticator and every
\* caller validates with that one: two requests of the same authenticator
\* never hold different adapter objects for the same tenant.
C1_OneAdapterPerTenant ==
    \A a, b \in HeldAdapters :
        (a.owner = b.owner /\ a.tenant = b.tenant) => a = b

\* the stages of a request, in order
StageOrder ==
    <<"Received", "IssuerParsed", "AdapterResolved", "SignatureValidated",
      "ScopeChecked", "Authorized">>

IsPrefix(s, t) == Len(s) <= Len(t) /\ s = SubSeq(t, 1, Len(s))

Front(s) == SubSeq(s, 1, Len(s) - 1)

\* the stages passed are an initial part of the stage order, possibly ended
\* by Rejected; Authorized only after the chosen adapter validated the token
\* and the scope check passed; Authorized and Rejected only in a finished
\* request
C3_StagesInOrder ==
    \A w \in Workers :
        LET r == req[w]
            st == r.stages
        IN  /\ \/ IsPrefix(st, StageOrder)
               \/ /\ st # <<>>
                  /\ st[Len(st)] = "Rejected"
                  /\ IsPrefix(Front(st), SubSeq(StageOrder, 1, 4))
            /\ Contains(st, "Authorized") =>
                  /\ r.pc = "done" /\ r.status = "ok"
                  /\ r.adapter # NoAdapter
                  /\ Validates(r.adapter.tenant, r.token)
                  /\ ScopeCheckPasses(get_required_scopes(required_scopes_raw),
                                      Decode(r.token).scp)
            /\ Contains(st, "Rejected") => r.pc = "done" /\ r.status = "fail"
            /\ (r.pc = "done" /\ r.status = "fail") => Contains(st, "Rejected")

\* a finished request runs no further stage: its only step is the release
C3_Terminal ==
    \A w \in Workers :
        req[w].pc = "done" => (req'[w] = req[w] \/ req'[w] = Idle)

C5_NoForeignAdapter ==
    (~multi_tenant_enabled \/ ~auto_tenant_discovery) =>
        /\ \A i \in DOMAIN auth_adapters : DOMAIN auth_adapters[i] = {home_tenant_id}
        /\ \A a \in HeldAdapters : a = NewRegistry(a.owner)[home_tenant_id]

C5_Witness ==
    /\ ~auto_tenant_discovery
    /\ multi_tenant_enabled
    /\ \E w \in Workers :
        /\ req[w].token_tenant_id = "T1"
        /\ req[w].adapter = NewRegistry(req[w].adapter.owner)[home_tenant_id]

\* C6: with multi-tenant mode off, a token whose issuer names a tenant other
\* than the home tenant is validated with the home tenant's adapter only, is
\* authorized only if it validates there, and no adapter of that tenant
\* exists.
C6_HomeOnlyWhenSingleTenant ==
    ~multi_tenant_enabled =>
        \A w \in Workers :
            LET r == req[w]
                t == TokenTenantId(r.token)
            IN  (r.pc # "idle" /\ TenantTruthy(t) /\ t # home_tenant_id) =>
                    /\ r.adapter # NoAdapter => r.adapter.tenant = home_tenant_id
                    /\ r.status = "ok" => Validates(home_tenant_id, r.token)
                    /\ \A i \in DOMAIN auth_adapters : t \notin DOMAIN auth_adapters[i]

C6_Witness ==
    /\ ~multi_tenant_enabled
    /\ \E w \in Workers :
        /\ TokenTenantId(req[w].token) = "T1"
        /\ req[w].status = "ok"
        /\ req[w].adapter.tenant = home_tenant_id

\* a request inside validate_token
InValidateToken(w) == req[w].pc \in {"parse", "create", "select"}

C8_HomeAdapterPresent ==
    /\ authenticator # 0 =>
          /\ authenticator \in DOMAIN auth_adapters
          /\ home_tenant_id \in DOMAIN auth_adapters[authenticator]
    /\ \A w \in Workers :
          InValidateToken(w) =>
              /\ req[w].auth \in DOMAIN auth_adapters
              /\ home_tenant_id \in DOMAIN Registry(w)

C8_HomeAdapterKept ==
    \A i \in DOMAIN auth_adapters \cap DOMAIN auth_adapters' :
        /\ home_tenant_id \in DOMAIN auth_adapters'[i]
        /\ auth_adapters'[i][home_tenant_id] = auth_adapters[i][home_tenant_id]

\* C8: the home tenant's adapter exists whenever validate_token runs, and no
\* step removes or replaces it.
C8_HomeAdapter == []C8_HomeAdapterPresent /\ [][C8_HomeAdapterKept]_vars

C8_Witness ==
    \E w \in Workers :
        /\ req[w].pc = "select"
        /\ "T1" \in DOMAIN Registry(w)
        /\ home_tenant_id \in DOMAIN Registry(w)

\* the header carries a non-empty token after "Bearer "
HasBearerToken(h) == h.present /\ Len(h.value) >= 2 /\ h.value[1] = "Bearer "

C10_RejectedAtOnce ==
    \A w \in Workers :
        (req[w].pc # "idle" /\ ~HasBearerToken(req[w].header)) =>
            /\ req[w].pc = "done"
            /\ req[w].status = "fail"
            /\ req[w].error = "MissingToken"
            /\ req[w].auth = 0
            /\ req[w].adapter = NoAdapter
            /\ req[w].stages = <<"Received", "Rejected">>

C10_NothingTouched ==
    \A w \in Workers :
        (req[w].pc = "idle" /\ req'[w].pc # "idle" /\ ~HasBearerToken(req'[w].header)) =>
            UNCHANGED <<authenticator, auth_adapters>>

\* C10: a request without a non-empty Bearer token is rejected as
\* MissingToken in its first step: no authenticator is constructed or read,
\* no adapter dict is touched and no adapter is called.
C10_MissingToken == []C10_RejectedAtOnce /\ [][C10_NothingTouched]_vars

C10_Witness ==
    \E w \in Workers :
        /\ req[w].error = "MissingToken"
        /\ req[w].header = [present |-> TRUE, value |-> <<"Bearer ">>]
        /\ authenticator = 0

CacheHit == last.source = "cache"

\* the entry of the last call has a recorded expiry later than now + buffer
FreshEntry ==
    /\ last.key \in DOMAIN token_expiry
    /\ now < token_expiry[last.key].at - BufferMinutes

\* C4 as stated: a call returns a token from the cache only while
\* now < expires_at - 5 minutes for that cache entry.
C4_OnlyFreshFromCache == CacheHit => FreshEntry

\* C4: a call returns a token from the cache only if the entry has no
\* recorded expiry, or now < the recorded expiry - 5 minutes.
C4_FreshOrNoExpiry ==
    CacheHit => (last.key \notin DOMAIN token_expiry \/ FreshEntry)

C4_Witness == CacheHit /\ FreshEntry /\ now > 0

\* C9: a call for a cached credential with a recorded expiry returns the
\* cached value without running the token command while
\* now < expiry - 5 minutes, and runs the token command from then on, storing
\* and returning what it minted.
C9_HitThenMint ==
    [][LET k == last'.key
       IN  (last'.source # "none" /\ k \in DOMAIN cached_tokens
                /\ k \in DOMAIN token_expiry) =>
              IF now < token_expiry[k].at - BufferMinutes
              THEN /\ last'.source = "cache"
                   /\ last'.value = cached_tokens[k]
                   /\ ~last'.ran
                   /\ UNCHANGED <<cached_tokens, token_expiry>>
              ELSE /\ last'.ran
                   /\ last'.source = "mint" =>
                          /\ cached_tokens'[k] = last'.value
                          /\ mints' = mints + 1]_vars

(***************************************************************************)
(* Properties of the scope check (specification SpecScope).                *)
(***************************************************************************)
\* the scopes a token carries: the words of its scp claim
ScopeSetOfToken(scp) ==
    IF scp = NoneSeq THEN {} ELSE {p \in Range(Split(scp, " ")) : p # <<>>}

\* C7: the scope check passes iff required_scopes is empty or shares an
\* element with the token's scope set.
C7_PassIffIntersects ==
    sc_result # "none" =>
        LET required == Range(get_required_scopes(required_scopes_raw))
        IN  (sc_result = "pass") <=>
                (required = {} \/ required \cap ScopeSetOfToken(sc_scp) # {})

(***************************************************************************)
(* Properties of the route POST /authenticate (specification Spec).        *)
(***************************************************************************)
\* C11: every finished request is answered with exactly one of 200 (data
\* with user_info), 401 (error) and 500 (error); 200 iff the request was
\* authorized, 401 iff it was rejected, 500 iff an exception left
\* authenticate_request; a request still running has no response.
C11_OneOfThreeAnswers ==
    \A w \in Workers :
        LET r == req[w]
            code == r.response.status_code
        IN  /\ (r.pc = "done") <=> (r.response # NoResponse)
            /\ r.pc = "done" =>
                  /\ code \in {200, 401, 500}
                  /\ (code = 200) <=> Contains(r.stages, "Authorized")
                  /\ code = 200 =>
                        /\ r.response.kind = "data"
                        /\ r.response.user_info = r.user_info
                        /\ r.user_info.token = r.token
                        /\ Validates(r.adapter.tenant, r.token)
                  /\ (code = 401) <=> Contains(r.stages, "Rejected")
                  /\ (code = 500) <=> (r.status = "raised")
                  /\ code # 200 =>
                        /\ r.response.kind = "error"
                        /\ r.response.user_info = NoInfo

C11_Witness ==
    \E v, w \in Workers :
        /\ req[v].response.status_code = 200
        /\ req[w].response.status_code = 500

\* C16: no call of authenticate_request ends with a raised exception.
C16_NeverRaises == \A w \in Workers : req[w].status # "raised"

\* C17: a request whose adapter call timed out is answered with a 5xx status
\* and a text that does not contain the text of the exception.
C17_TimeoutIsGeneric5xx ==
    \A w \in Workers :
        (req[w].pc = "done" /\ req[w].error = "exception") =>
            /\ req[w].response.status_code >= 500
            /\ ~Contains(req[w].response.text, "str(e)")

\* C18: no request is answered from a failed construction of the
\* authenticator, and none starts a construction while another request's
\* failed construction is being answered.
C18_NoFailedConstructionInRequests ==
    \A w \in Workers :
        /\ req[w].error # "ConfigurationError"
        /\ \A v \in Workers :
              req[v].response.status_code = 500 => req[w].pc # "construct"

(***************************************************************************)
(* Properties of validate_token (specification SpecSeq).                   *)
(***************************************************************************)
\* the token's issuer is one of the two issuer URLs of the home tenant
IssuedByHome(token) ==
    LET d == Decode(token)
    IN  d.decodable /\ d.hasIss
        /\ d.iss \in {StsIssuer(home_tenant_id), LoginIssuer(home_tenant_id)}

\* the scopes of the scp claim, in order
ScopeWords(scp) == IF scp = NoneSeq THEN <<>> ELSE Split(scp, " ")

\* C12: with no required scopes, a token issued by the home tenant that the
\* home adapter validated is Authorized, by the home adapter, with a user
\* identity equal to the token's claims, whatever the flags are and whatever
\* else the authenticator's dict holds.
C12_HomeTokenAuthorized ==
    \A w \in Workers :
        LET r == req[w]
            d == Decode(r.token)
        IN  (/\ r.pc = "done"
             /\ required_scopes_raw = <<>>
             /\ IssuedByHome(r.token)
             /\ Validates(home_tenant_id, r.token)
             /\ Contains(r.stages, "AdapterResolved")
             /\ r.error # "exception") =>
                /\ r.status = "ok"
                /\ r.stages = StageOrder
                /\ r.adapter = NewRegistry(r.auth)[home_tenant_id]
                /\ r.user_info.id = r.token[1]
                /\ r.user_info.tenant_id = home_tenant_id
                /\ r.user_info.issuer = d.iss
                /\ r.user_info.scopes = ScopeWords(d.scp)
                /\ r.response.status_code = 200

C12_Witness ==
    /\ multi_tenant_enabled /\ auto_tenant_discovery
    /\ required_scopes_raw = <<>>
    /\ req[1].status = "ok"
    /\ req[1].token = <<"jH">>
    /\ "T1" \in DOMAIN Registry(1)

\* the tenants an issuer URL of the two shapes can name
IssuerTenants == {home_tenant_id, "T1"}

\* the tenant of an issuer of one of the two shapes, else unknown
TenantOfKnownShape(token) ==
    LET d == Decode(token)
        named == {t \in IssuerTenants :
                    d.decodable /\ d.hasIss /\ d.iss \in {StsIssuer(t), LoginIssuer(t)}}
    IN  IF named = {} THEN NoneStr ELSE CHOOSE t \in named : TRUE

\* the second-to-last "/" piece of the issuer when the issuer contains one
\* of the two host names and has two pieces, else unknown
TenantOfHostAndPiece(token) ==
    LET d == Decode(token)
        pieces == Split(d.iss, "/")
        n == Len(pieces)
    IN  IF d.decodable /\ d.hasIss /\ n >= 2
           /\ (\E i \in 1..Len(d.iss) :
                  d.iss[i] \in {"sts.windows.net", "login.microsoftonline.com"})
        THEN PieceStr(pieces[n - 1])
        ELSE NoneStr

\* the step that parses the issuer of worker w's token
ParseStep(w) == req[w].pc = "parse" /\ req'[w].pc # "parse"

\* the step neither fails nor rejects: the request goes on to the adapter
GoesOn(w) == req'[w].pc \in {"create", "select"} /\ req'[w].status = "none"

C14_RetryOnce ==
    LET n == Len(cli.posts)
    IN  /\ n <= 2
        /\ n = 2 => cli.posts[1] = 401 /\ cli.refreshed = "ok"
        /\ cli.refreshed # "no" => n >= 1 /\ cli.posts[1] = 401
        /\ cli.refreshed = "failed" =>
              /\ n = 1
              /\ cli.pc = "done"
              /\ cli.result = "Failed to refresh authentication token"
        /\ (n = 2 /\ cli.posts[2] = 401) => cli.pc = "done" /\ cli.result = "error"
        /\ (n >= 1 /\ cli.posts[1] = 401 /\ cli.pc = "done") => cli.refreshed # "no"
        /\ cli.pc = "refresh" => n = 1
        /\ cli.fetches <= 2
        /\ cli.result = "json" => cli.posts[n] = 200

C14_Witness ==
    /\ cli.pc = "done"
    /\ cli.posts = <<401, 401>>
    /\ cli.result = "error"

(***************************************************************************)
(* Properties of concurrent get_access_token calls (specification          *)
(* SpecRace).                                                              *)
(***************************************************************************)
\* C15: of the callers that found the same key cold or expired at the same
\* time (no token was minted between their tests of the cache), at most one
\* mints a token, and all of them return the same token.
C15_OneMintPerColdKey ==
    \A v, w \in Workers :
        (/\ v # w
         /\ callers[v].pc = "done" /\ callers[w].pc = "done"
         /\ callers[v].key = callers[w].key
         /\ callers[v].seen = callers[w].seen
         /\ callers[v].source = "mint") =>
            /\ callers[w].source # "mint"
            /\ callers[w].got = callers[v].got

(***************************************************************************)
(* Properties of the secret cache and of configuration values              *)
(* (specification SpecKv).                                                 *)
(***************************************************************************)
\* the call that returns in this step
Returned(op) == kv_last'.op = op

\* get_secret on a cached name returns the cached value and does not call the
\* Key Vault
CachedIsServed ==
    (Returned("get_secret") /\ kv_last'.name \in DOMAIN secret_cache) =>
        /\ kv_last'.result = secret_cache[kv_last'.name]
        /\ ~kv_last'.contacted
        /\ secret_cache' = secret_cache

\* the entry of name n is the same after the step
EntryKept(n) == n \in DOMAIN secret_cache' /\ secret_cache'[n] = secret_cache[n]

\* C19 as stated: once a value is cached for a name, only clear_cache changes
\* or removes the entry, and until then get_secret(name) returns that value
\* without calling the Key Vault.
C19_OnlyClearInvalidates ==
    [][/\ CachedIsServed
       /\ \A n \in DOMAIN secret_cache : EntryKept(n) \/ Returned("clear_cache")]_vars

\* C19: a cached entry is changed or removed only by clear_cache, by a
\* successful set_secret of that name (which caches the value written) or by
\* a successful delete_secret of that name; while the entry is there
\* get_secret(name) returns it without calling the Key Vault, whatever the
\* Key Vault holds.
C19_ClearSetDeleteInvalidate ==
    [][/\ CachedIsServed
       /\ \A n \in DOMAIN secret_cache :
            \/ EntryKept(n)
            \/ Returned("clear_cache")
            \/ /\ Returned("set_secret") /\ kv_last'.name = n
               /\ kv_last'.result = "True"
               /\ n \in DOMAIN secret_cache'
               /\ secret_cache'[n] = kv_last'.default
            \/ /\ Returned("delete_secret") /\ kv_last'.name = n
               /\ kv_last'.result = "True"
               /\ n \notin DOMAIN secret_cache']_vars

\* a cached name was asked for while the Key Vault held another value, or none
C19_Witness ==
    /\ kv_last.op = "get_secret"
    /\ kv_last.name \in DOMAIN secret_cache
    /\ ~kv_last.contacted
    /\ kv_last.result = secret_cache[kv_last.name]
    /\ \/ kv_last.name \notin DOMAIN vault
       \/ vault[kv_last.name] # secret_cache[kv_last.name]

\* what get_secret gives for secret name n in this state when the Key Vault
\* answers with outcome o: the cached value, else the stored value, else ""
SecretNow(n, o) ==
    IF n \in DOMAIN secret_cache THEN secret_cache[n]
    ELSE IF kv_client = "client" /\ o = "ok" /\ n \in DOMAIN vault THEN vault[n]
    ELSE ""

\* C20: get_config_value(key, default) for a key of CONFIG_KEYS returns the
\* secret when get_secret gives a non-empty one; otherwise (Key Vault not
\* configured, no client, secret missing, request failed, empty value) the
\* environment value of the key, and the default when the environment has no
\* such key; it always returns a value.
C20_SecretThenEnvThenDefault ==
    [][(Returned("get_config_value") /\ kv_last'.name \in DOMAIN CONFIG_KEYS) =>
         \E o \in StoreOutcomes :
            LET sv == SecretNow(CONFIG_KEYS[kv_last'.name], o)
            IN  /\ kv_last'.contacted =>
                     (o = "ok" /\ CONFIG_KEYS[kv_last'.name] \in DOMAIN vault
                        <=> CONFIG_KEYS[kv_last'.name] \in DOMAIN secret_cache')
                /\ kv_last'.result =
                     IF sv # "" THEN sv
                     ELSE IF kv_last'.name \in DOMAIN env THEN env[kv_last'.name]
                     ELSE kv_last'.default]_vars

\* the Key Vault was asked and failed or held an empty value, and the value
\* came from the environment
C20_Witness ==
    /\ kv_last.op = "get_config_value"
    /\ kv_last.name \in DOMAIN CONFIG_KEYS
    /\ kv_last.contacted
    /\ kv_last.name \in DOMAIN env
    /\ env[kv_last.name] = "e"
    /\ kv_last.result = "e"
    /\ kv_last.default = "false"


(***************************************************************************)
(* Lifetime of adapters and of the authenticator (specification Spec).     *)
(***************************************************************************)
\* the dict of the authenticator that _authenticator refers to
GlobalRegistry == auth_adapters[authenticator]

\* C21: adapters are created once per tenant id and never destroyed: from
\* one state to the next the registry of the process keeps every tenant id
\* it has, mapped to the same adapter.
C21_RegistryOnlyGrows ==
    [][authenticator # 0 =>
         /\ authenticator' # 0
         /\ \A t \in DOMAIN GlobalRegistry :
               /\ t \in DOMAIN GlobalRegistry'
               /\ GlobalRegistry'[t] = GlobalRegistry[t]]_vars

\* C29: at most one authenticator is constructed per process: once
\* _authenticator is set it is never replaced by another instance.
C29_OneAuthenticator ==
    [][authenticator # 0 => authenticator' = authenticator]_vars


(***************************************************************************)
(* The identity returned by authenticate_request (specification SpecSeq).  *)
(***************************************************************************)
\* the bearer token a header presents: all that follows the scheme "Bearer "
PresentedToken(h) == Tail(h.value)

\* C22: a successful authenticate_request returns a user_info whose token is
\* exactly the bearer token of the request's Authorization header, and a
\* failed one returns no user_info.
C22_TokenIsThePresentedOne ==
    \A w \in Workers :
        req[w].pc = "done" =>
            IF req[w].status = "ok"
            THEN /\ req[w].user_info # NoInfo
                 /\ req[w].user_info.token = PresentedToken(req[w].header)
            ELSE req[w].user_info = NoInfo


\* a step in which worker w's authenticator gets an adapter for a tenant it
\* had none for
AddsAdapter(w, t) ==
    /\ req[w].auth # 0
    /\ req[w].auth \in DOMAIN auth_adapters'
    /\ t \notin DOMAIN auth_adapters[req[w].auth]
    /\ t \in DOMAIN auth_adapters'[req[w].auth]

\* C23: a tenant id taken from an unverified token adds no adapter unless
\* the token is then validated: whenever a request adds an adapter for
\* tenant t, its token is one that t's adapter accepts, so that a call that
\* ends Rejected leaves the registry as it was.
C23_NoAdapterFromRejectedToken ==
    [][\A w \in Workers, t \in IssuerTenants \cup {"oauth2", ""} :
          (req[w].pc = "create" /\ AddsAdapter(w, t)) =>
              Validates(t, req[w].token)]_vars


(***************************************************************************)
(* Keys of the token cache (specification SpecPairs).                      *)
(***************************************************************************)
\* C24: distinct (tenant_id, resource) pairs never share a cache entry: a
\* token that the previous call minted is served from the cache only to a
\* call with the same tenant_id and resource.
C24_NoEntryShared ==
    [][(/\ last.source = "mint"
        /\ last.value # 0
        /\ last'.source = "cache"
        /\ last'.value = last.value) => last'.args = last.args]_vars


(***************************************************************************)
(* What the token cache holds after a mint (specification SpecCache).      *)
(***************************************************************************)
\* the last call ran the token command and stored the token of its response
StoredToken == last.ran /\ last.expiresOn # "none"

\* C25: the expiry recorded for a key belongs to the token stored for the
\* key: after a call has stored a token, the key has a recorded expiry only
\* if the response that brought the token carried one.
C25_ExpiryOfStoredToken ==
    (StoredToken /\ last.key \in DOMAIN token_expiry) =>
        last.expiresOn \in {"naive", "aware"}

\* C26: a call whose mint failed (it ran the token command and returned
\* None) leaves _cached_tokens and _token_expiry as they were.
C26_FailedMintChangesNothing ==
    [][(last'.ran /\ last'.source = "error") =>
          /\ cached_tokens' = cached_tokens
          /\ token_expiry' = token_expiry]_vars

\* C27: a value returned from the cache without minting is a token, never
\* None.
C27_NoEmptyFromCache == CacheHit => last.value # 0


(***************************************************************************)
(* The multi-tenant flag and delegated tokens (specification SpecObo).     *)
(***************************************************************************)
\* what get_token_for_resource returns for these arguments under the given
\* setting of the multi-tenant flag when the identity provider answers
ReturnedUnder(multi, resource, tenant_id, user_token) ==
    IF TenantRefused(multi, tenant_id) THEN "None"
    ELSE Exchange("get_token_for_resource", resource, tenant_id, user_token,
                  TRUE, TRUE).returned

\* C28: enabling multi-tenant mode never takes a tenant away: a call of
\* get_token_for_resource that returned a token with the flag disabled
\* returns one for the same arguments with the flag enabled.
C28_EnablingKeepsTenants ==
    (/\ obo_last.fn = "get_token_for_resource"
     /\ ~multi_tenant_enabled
     /\ obo_last.returned = "token") =>
        ReturnedUnder(TRUE, obo_last.resource, obo_last.tenant_id,
                      obo_last.user_token) = "token"


(***************************************************************************)
(* Where the entries of the secret cache come from (specification SpecKv). *)
(***************************************************************************)
\* the step caches for name n the value the Key Vault holds for it
CachesStored(n) ==
    /\ kv_client = "client"
    /\ kv_last'.contacted
    /\ n \in DOMAIN vault
    /\ n \notin DOMAIN secret_cache
    /\ secret_cache' = DictSet(secret_cache, n, vault[n])

\* C30: the cache changes only with a successful Key Vault operation: a
\* get_secret (or get_config_value) either leaves the cache alone or adds
\* the value the Key Vault returned, and a get_secret that returns the
\* default adds nothing; a successful set_secret(n, v) caches v, and the next
\* get_secret(n) returns v; a successful delete_secret(n) removes n; a failed
\* set_secret or delete_secret leaves the cache as it was.
C30_CacheFollowsStore ==
    [][/\ Returned("get_secret") =>
            \/ secret_cache' = secret_cache
            \/ /\ CachesStored(kv_last'.name)
               /\ kv_last'.result = vault[kv_last'.name]
       /\ Returned("get_config_value") =>
            \/ secret_cache' = secret_cache
            \/ /\ kv_last'.name \in DOMAIN CONFIG_KEYS
               /\ CachesStored(CONFIG_KEYS[kv_last'.name])
       /\ (Returned("set_secret") /\ kv_last'.result = "True") =>
            /\ secret_cache' = DictSet(secret_cache, kv_last'.name, kv_last'.default)
            /\ vault' = DictSet(vault, kv_last'.name, kv_last'.default)
       /\ (Returned("delete_secret") /\ kv_last'.result = "True") =>
            secret_cache' = DictDel(secret_cache, kv_last'.name)
       /\ ((Returned("set_secret") \/ Returned("delete_secret"))
             /\ kv_last'.result = "False") =>
            secret_cache' = secret_cache /\ vault' = vault
       /\ (/\ kv_last.op = "set_secret" /\ kv_last.result = "True"
           /\ Returned("get_secret") /\ kv_last'.name = kv_last.name) =>
            kv_last'.result = kv_last.default /\ ~kv_last'.contacted]_vars

\* get_secret asked the Key Vault for a secret it holds, the request failed,
\* the default was returned and nothing was cached
C30_Witness ==
    /\ kv_last.op = "get_secret"
    /\ kv_last.contacted
    /\ kv_last.name \in DOMAIN vault
    /\ kv_last.name \notin DOMAIN secret_cache
    /\ kv_last.result = "d"

=============================================================================
